---- MODULE Spec2Model ----
(***************************************************************************)
(* Model of the Task / Command data model of the renode-linux-runner       *)
(* action (src/action/command.py) and of the dispatcher that consumes it.  *)
(*                                                                         *)
(* Command texts, variable names and variable values are sequences of      *)
(* one-character strings, so that the regular expression scan and the      *)
(* str.replace calls of Command.apply_vars are computed character by       *)
(* character, as the interpreter computes them.                            *)
(*                                                                         *)
(* Three specifications share the module:                                  *)
(*   SpecVars      variable resolution (Command.apply_vars,                *)
(*                 Task.apply_vars) followed by the dispatch of the        *)
(*                 resolved commands;                                      *)
(*   SpecLoad      construction of Commands and Tasks from records and     *)
(*                 from a block of lines, and policy inheritance;          *)
(*   SpecDispatch  the dependency graph and the task state machine.        *)
(***************************************************************************)
EXTENDS Integers, Sequences, FiniteSets, TLC

VARIABLES
    \* ---- SpecVars
    vpc,            \* "idle" | "loaded" | "resolved" | "aborted"
    commands,       \* Task.commands: the command texts, resolved in place
    original,       \* history: the command texts as loaded
    default_vars,   \* the dispatcher's global variables
    task_vars,      \* Task.vars
    override_vars,  \* the per-run override variables
    sent,           \* the command texts handed to the shell session so far
    \* ---- SpecLoad
    lpc,            \* "idle" | "start" | "loaded" | "added" | "error"
    source,         \* "yaml" | "lines": which constructor builds the task
    obj,            \* the mapping yaml.safe_load returned / the params record
    given_overrides, \* the overrides of a load_from_yaml call
    block,          \* the multi-line string of commands
    task,           \* the Task constructed, NoObject before and on error
    loaded,         \* history: the Task as constructed, before add_task
    \* ---- SpecDispatch
    dpc,            \* "idle" | "setup" | "error" | "running" | "done_ok" | "done_failed"
    requires,       \* Task.requires of each registered task
    before,         \* Task.before of each registered task
    no_fail_fast,   \* the tasks whose definition sets fail-fast to false
    fail_fast,      \* Task.fail_fast of each registered task
    disabled,       \* Task.disabled of each registered task
    switched_off,   \* history: the tasks whose last enable call passed False
    order,          \* the execution order the dispatcher computed
    status,         \* the state of each task in the evaluation
    cancelled,      \* the tasks skipped because a task they depend on failed
    results         \* per task, the outcome of each command executed so far

varsV == <<vpc, commands, original, default_vars, task_vars, override_vars, sent>>

varsL == <<lpc, source, obj, given_overrides, block, task, loaded>>

varsD == <<dpc, requires, before, no_fail_fast, fail_fast, disabled,
           switched_off, order, status, cancelled, results>>

vars == <<varsV, varsL, varsD>>

(***************************************************************************)
(* Python values used by more than one part of the model.                  *)
(***************************************************************************)

\* dict union a | b: the keys of both, b's value where both define a key.
DictUnion(a, b) ==
    [k \in (DOMAIN a) \cup (DOMAIN b) |-> IF k \in DOMAIN b THEN b[k] ELSE a[k]]

\* The empty dict.
EmptyDict == [k \in {} |-> <<>>]

\* A Python value: its type (k), its number (n: an int, or a bool as 0 / 1)
\* and its content (s: the characters of a str, the items of a list, the
\* (key, value) items of a dict in insertion order, a key being the
\* characters of a str).
PyNone == [k |-> "none", n |-> 0, s |-> <<>>]
PyBool(b) == [k |-> "bool", n |-> IF b THEN 1 ELSE 0, s |-> <<>>]
PyInt(i) == [k |-> "int", n |-> i, s |-> <<>>]
PyStr(cs) == [k |-> "str", n |-> 0, s |-> cs]
PyList(xs) == [k |-> "list", n |-> 0, s |-> xs]
\* The dict with the given keys, in that order, and the values d gives them.
PyDict(keys, d) ==
    [k |-> "dict", n |-> 0, s |-> [i \in 1..Len(keys) |-> <<keys[i], d[keys[i]]>>]]
\* list(v.keys()) of a dict v.
Keys(v) == [i \in 1..Len(v.s) |-> v.s[i][1]]
\* The value a dict v gives each of its keys.
Mapping(v) ==
    [x \in {v.s[i][1] : i \in 1..Len(v.s)} |->
        v.s[CHOOSE i \in 1..Len(v.s) : v.s[i][1] = x][2]]
\* A list of Command objects.
PyCommands(cs) == [k |-> "commands", n |-> 0, s |-> cs]

\* What a constructor returns when it raises instead.
NoObject == PyNone

RECURSIVE PyEq(_, _)
\* a == b.  A bool is an int: True == 1 and False == 0.  Lists are equal when
\* their items are, in order; dicts when they have the same keys with equal
\* values, in any order; Commands (dataclasses) when their fields are.
PyEq(a, b) ==
    IF a.k \in {"bool", "int"} /\ b.k \in {"bool", "int"} THEN a.n = b.n
    ELSE IF a.k # b.k THEN FALSE
    ELSE CASE a.k = "list" ->
                /\ Len(a.s) = Len(b.s)
                /\ \A i \in 1..Len(a.s) : PyEq(a.s[i], b.s[i])
           [] a.k = "dict" ->
                /\ DOMAIN Mapping(a) = DOMAIN Mapping(b)
                /\ \A x \in DOMAIN Mapping(a) : PyEq(Mapping(a)[x], Mapping(b)[x])
           [] a.k = "commands" ->
                /\ Len(a.s) = Len(b.s)
                /\ \A i \in 1..Len(a.s) : \A f \in DOMAIN a.s[i] :
                        PyEq(a.s[i][f], b.s[i][f])
           [] OTHER -> a = b

\* bool(a): None, False, 0 and the empty str, list and dict are false.
Truthy(a) ==
    CASE a.k = "none" -> FALSE
      [] a.k \in {"bool", "int"} -> a.n # 0
      [] OTHER -> Len(a.s) > 0

\* ---------------------------------------------------------------------------
\* Command.apply_vars: the regular expression
\*     \$\{\{([\sa-zA-Z0-9_\-]*)\}\}
\* scanned over the command by re.finditer, and str.replace.
\* ---------------------------------------------------------------------------

\* The characters of the model's alphabet that the class [\sa-zA-Z0-9_\-]
\* accepts; the other characters of the alphabet are "$", "{", "}", "!".
NameChars == {" ", "A", "B", "b", "d", "o", "s", "t", "x", "_", "-"}

RECURSIVE NameRun(_, _)
\* The length of the longest run of class characters of s starting at i
\* (the greedy star of the group).
NameRun(s, i) ==
    IF i <= Len(s) /\ s[i] \in NameChars THEN 1 + NameRun(s, i + 1) ELSE 0

\* The length of the match of the expression at position i of s, 0 for no
\* match.  The class excludes "}", so the greedy run is the only candidate.
MatchAt(s, i) ==
    IF i + 2 <= Len(s) /\ s[i] = "$" /\ s[i + 1] = "{" /\ s[i + 2] = "{"
    THEN LET k == NameRun(s, i + 3)
             j == i + 3 + k
         IN  IF j + 1 <= Len(s) /\ s[j] = "}" /\ s[j + 1] = "}"
             THEN k + 5
             ELSE 0
    ELSE 0

RECURSIVE finditer(_, _)
\* re.finditer: the non-overlapping matches of s from position i on, left
\* to right; match[0] is the pattern, match[1] the group.
finditer(s, i) ==
    IF i > Len(s) THEN <<>>
    ELSE LET n == MatchAt(s, i)
         IN  IF n > 0
             THEN <<[pattern  |-> SubSeq(s, i, i + n - 1),
                     var_name |-> SubSeq(s, i + 3, i + n - 3)]>>
                  \o finditer(s, i + n)
             ELSE finditer(s, i + 1)

RECURSIVE ReplaceFrom(_, _, _, _)
\* str.replace(old, new) from position i on: every non-overlapping
\* occurrence of old, left to right.  old is never empty here.
ReplaceFrom(s, i, old, new) ==
    IF i > Len(s) THEN <<>>
    ELSE IF i + Len(old) - 1 <= Len(s) /\ SubSeq(s, i, i + Len(old) - 1) = old
         THEN new \o ReplaceFrom(s, i + Len(old), old, new)
         ELSE <<s[i]>> \o ReplaceFrom(s, i + 1, old, new)

\* One step of the loop body: self.command.replace(pattern, vars[var_name]).
ReplaceAll(s, old, new) == ReplaceFrom(s, 1, old, new)

RECURSIVE ApplyMatches(_, _, _)
\* The loop of Command.apply_vars over the matches found in the ORIGINAL
\* command: each replace acts on the command as rewritten so far; the first
\* name that is not a key of vars ends in error().
ApplyMatches(cmd, ms, vs) ==
    IF ms = <<>> THEN [command |-> cmd, err |-> FALSE]
    ELSE IF Head(ms).var_name \in DOMAIN vs
         THEN ApplyMatches(ReplaceAll(cmd, Head(ms).pattern, vs[Head(ms).var_name]),
                           Tail(ms), vs)
         ELSE [command |-> cmd, err |-> TRUE]

RECURSIVE ApplyMatchesLenient(_, _, _)
ApplyMatchesLenient(cmd, ms, vs) ==
    IF ms = <<>> THEN [command |-> cmd, err |-> FALSE]
    ELSE IF Head(ms).var_name \in DOMAIN vs
         THEN ApplyMatchesLenient(
                  ReplaceAll(cmd, Head(ms).pattern, vs[Head(ms).var_name]),
                  Tail(ms), vs)
         ELSE ApplyMatchesLenient(cmd, Tail(ms), vs)

\* Command.apply_vars as it would be with the else branch dropped: a name
\* that is not in the scope leaves its placeholder in the command.
Command_apply_vars_lenient(cmd, vs) ==
    ApplyMatchesLenient(cmd, finditer(cmd, 1), vs)

\* Command.apply_vars(vars).
Command_apply_vars(cmd, vs) == ApplyMatches(cmd, finditer(cmd, 1), vs)

\* The scope as it would be with the operands of the union swapped:
\* override_variables | self.vars | default_vars.
MergedScope_swapped(dv, tv, ov) == DictUnion(DictUnion(ov, tv), dv)

\* The scope Task.apply_vars hands to each command:
\* default_vars | self.vars | override_variables.
MergedScope(dv, tv, ov) == DictUnion(DictUnion(dv, tv), ov)

RECURSIVE ApplyCommands(_, _, _)
\* The loop of Task.apply_vars: the commands resolved in order; error() in
\* one command ends the run, leaving the later commands untouched.
ApplyCommands(cs, i, vs) ==
    IF i > Len(cs) THEN [commands |-> cs, err |-> FALSE]
    ELSE LET r == Command_apply_vars(cs[i], vs)
         IN  IF r.err
             THEN [commands |-> [cs EXCEPT ![i] = r.command], err |-> TRUE]
             ELSE ApplyCommands([cs EXCEPT ![i] = r.command], i + 1, vs)

\* Task.apply_vars(default_vars, override_variables).
Task_apply_vars(cs, dv, tv, ov) == ApplyCommands(cs, 1, MergedScope(dv, tv, ov))

(***************************************************************************)
(* SpecVars: inputs.                                                       *)
(***************************************************************************)

\* The most segments a generated command text is made of.
MaxSegs == 2

\* The pieces command texts are made of: three placeholders (one written
\* with spaces around its name), plain text, and the two halves of a
\* placeholder, which make "${{}}" and "${{x}}" when they meet.
Segs ==
    { <<"$", "{", "{", "A", "}", "}">>,
      <<"$", "{", "{", " ", "A", " ", "}", "}">>,
      <<"$", "{", "{", "B", "}", "}">>,
      <<"x">>,
      <<"$", "{", "{">>,
      <<"}", "}">> }

RECURSIVE TextsUpTo(_)
TextsUpTo(n) ==
    IF n = 0 THEN {<<>>}
    ELSE LET prev == TextsUpTo(n - 1)
         IN  prev \cup {t \o s : t \in prev, s \in Segs}

Texts == TextsUpTo(MaxSegs)

\* A second command of the task, after or before the generated one.
OtherTexts == { <<"$", "{", "{", "B", "}", "}">> }

CommandLists ==
    {<<t>> : t \in Texts}
        \cup {<<t, u>> : t \in Texts, u \in OtherTexts}
        \cup {<<u, t>> : t \in Texts, u \in OtherTexts}

NameA  == <<"A">>
NameB  == <<"B">>
NameSA == <<" ", "A", " ">>

\* The dicts over the keys ks whose value for k is one of vals[k].
Dicts(ks, vals) ==
    UNION {[sub -> UNION {vals[k] : k \in sub}] : sub \in SUBSET ks}

DictsOf(ks, vals) ==
    {d \in Dicts(ks, vals) : \A k \in DOMAIN d : d[k] \in vals[k]}

\* Global defaults: A may be plain or have the form of the placeholder of B.
DefaultDicts ==
    DictsOf({NameA, NameB},
            [k \in {NameA, NameB} |->
                IF k = NameA
                THEN {<<"d">>, <<"$", "{", "{", "B", "}", "}">>}
                ELSE {<<"b">>}])

\* Task vars: A, with a value that contains its own placeholder.
TaskDicts ==
    DictsOf({NameA},
            [k \in {NameA} |-> {<<"$", "{", "{", "A", "}", "}", "!">>}])

\* Per-run overrides: A, and a key spelled with the spaces.
OverrideDicts ==
    DictsOf({NameA, NameSA},
            [k \in {NameA, NameSA} |->
                IF k = NameA THEN {<<"o">>} ELSE {<<"s">>}])

InitV ==
    /\ vpc = "loaded"
    /\ commands \in CommandLists
    /\ original = commands
    /\ default_vars \in DefaultDicts
    /\ task_vars \in TaskDicts
    /\ override_vars \in OverrideDicts
    /\ sent = <<>>
    \* nothing is constructed here
    /\ lpc = "idle"
    /\ source = "none"
    /\ obj = NoObject
    /\ given_overrides = EmptyDict
    /\ block = <<>>
    /\ task = NoObject
    /\ loaded = NoObject
    \* no dispatcher evaluation here
    /\ dpc = "idle"
    /\ requires = <<>>
    /\ before = <<>>
    /\ no_fail_fast = {}
    /\ fail_fast = <<>>
    /\ disabled = <<>>
    /\ switched_off = {}
    /\ order = <<>>
    /\ status = <<>>
    /\ cancelled = {}
    /\ results = <<>>

\* Task.apply_vars, run once per task before evaluation.  error() prints
\* the message and ends the process.
ApplyVars ==
    /\ vpc = "loaded"
    /\ LET r == Task_apply_vars(commands, default_vars, task_vars, override_vars)
       IN  /\ commands' = r.commands
           /\ vpc' = IF r.err THEN "aborted" ELSE "resolved"
    /\ UNCHANGED <<original, default_vars, task_vars, override_vars, sent>>
    /\ UNCHANGED <<varsL, varsD>>

\* The dispatcher sends the next command of the task to its shell session.
SendCommand ==
    /\ vpc = "resolved"
    /\ Len(sent) < Len(commands)
    /\ sent' = Append(sent, commands[Len(sent) + 1])
    /\ UNCHANGED <<vpc, commands, original, default_vars, task_vars, override_vars>>
    /\ UNCHANGED <<varsL, varsD>>

NextV == ApplyVars \/ SendCommand

(***************************************************************************)
(* Construction of Commands and Tasks.                                     *)
(***************************************************************************)

\* The characters of a str the source writes as a literal or as the name of a
\* field: the fields of the two dataclasses, the spellings of the name maps
\* and the key "refers" of the main script.
Text(name) ==
    CASE name = "command" ->
            <<"c", "o", "m", "m", "a", "n", "d">>
      [] name = "expect" ->
            <<"e", "x", "p", "e", "c", "t">>
      [] name = "timeout" ->
            <<"t", "i", "m", "e", "o", "u", "t">>
      [] name = "echo" ->
            <<"e", "c", "h", "o">>
      [] name = "check_exit_code" ->
            <<"c", "h", "e", "c", "k", "_", "e", "x", "i", "t", "_", "c", "o", "d", "e">>
      [] name = "should_fail" ->
            <<"s", "h", "o", "u", "l", "d", "_", "f", "a", "i", "l">>
      [] name = "check-exit-code" ->
            <<"c", "h", "e", "c", "k", "-", "e", "x", "i", "t", "-", "c", "o", "d", "e">>
      [] name = "should-fail" ->
            <<"s", "h", "o", "u", "l", "d", "-", "f", "a", "i", "l">>
      [] name = "fail-fast" ->
            <<"f", "a", "i", "l", "-", "f", "a", "s", "t">>
      [] name = "fail_fast" ->
            <<"f", "a", "i", "l", "_", "f", "a", "s", "t">>
      [] name = "name" ->
            <<"n", "a", "m", "e">>
      [] name = "shell" ->
            <<"s", "h", "e", "l", "l">>
      [] name = "requires" ->
            <<"r", "e", "q", "u", "i", "r", "e", "s">>
      [] name = "before" ->
            <<"b", "e", "f", "o", "r", "e">>
      [] name = "sleep" ->
            <<"s", "l", "e", "e", "p">>
      [] name = "disabled" ->
            <<"d", "i", "s", "a", "b", "l", "e", "d">>
      [] name = "commands" ->
            <<"c", "o", "m", "m", "a", "n", "d", "s">>
      [] name = "vars" ->
            <<"v", "a", "r", "s">>
      [] name = "refers" ->
            <<"r", "e", "f", "e", "r", "s">>

\* is_instance of dacite's type check, for the annotations of the two
\* dataclasses.  isinstance(True, int) holds: a bool is accepted as an int.
TypeOk(ty, v) ==
    CASE ty = "str" -> v.k = "str"
      [] ty = "str|None" -> v.k \in {"str", "none"}
      [] ty = "int" -> v.k \in {"int", "bool"}
      [] ty = "int|None" -> v.k \in {"int", "bool", "none"}
      [] ty = "bool" -> v.k = "bool"
      [] ty = "bool|None" -> v.k \in {"bool", "none"}
      [] ty = "list[str]" ->
            v.k = "list" /\ \A i \in 1..Len(v.s) : v.s[i].k = "str"
      [] ty = "list[Command]" -> v.k = "commands"
      [] ty = "Dict[str,str]" ->
            v.k = "dict" /\ \A i \in 1..Len(v.s) : v.s[i][2].k = "str"

Field(ty, has_default, default) ==
    [type |-> ty, has_default |-> has_default, default |-> default]

\* The fields of the Command dataclass, with their defaults.
CommandFields ==
    [command         |-> Field("str", TRUE, PyStr(<<>>)),
     expect          |-> Field("str|None", TRUE, PyNone),
     timeout         |-> Field("int|None", TRUE, PyInt(-1)),
     echo            |-> Field("bool|None", TRUE, PyNone),
     check_exit_code |-> Field("bool|None", TRUE, PyNone),
     should_fail     |-> Field("bool|None", TRUE, PyNone)]

\* Task.fail_fast as it would be with the default written False.
Task_fail_fast_default_off == FALSE

\* The default of Task.fail_fast.
Task_fail_fast_default == TRUE

\* The default of Task.disabled.
Task_disabled_default == FALSE

\* Task.enable as it would be without the negation.
Task_enable_unnegated(value) == value

\* Task.enable(value): the value self.disabled takes.
Task_enable(value) == ~value

\* The fields of the Task dataclass; name and shell have no default.
TaskFields ==
    [name            |-> Field("str", FALSE, PyNone),
     shell           |-> Field("str", FALSE, PyNone),
     requires        |-> Field("list[str]", TRUE, PyList(<<>>)),
     before          |-> Field("list[str]", TRUE, PyList(<<>>)),
     echo            |-> Field("bool", TRUE, PyBool(FALSE)),
     timeout         |-> Field("int|None", TRUE, PyNone),
     fail_fast       |-> Field("bool", TRUE, PyBool(Task_fail_fast_default)),
     check_exit_code |-> Field("bool", TRUE, PyBool(TRUE)),
     should_fail     |-> Field("bool", TRUE, PyBool(FALSE)),
     sleep           |-> Field("int", TRUE, PyInt(0)),
     disabled        |-> Field("bool", TRUE, PyBool(Task_disabled_default)),
     commands        |-> Field("list[Command]", TRUE, PyCommands(<<>>)),
     vars            |-> Field("Dict[str,str]", TRUE, PyDict(<<>>, EmptyDict))]

\* dacite.from_dict(data_class, data) with the default Config: a field takes
\* its value from data (type-checked) or its default; a field without a
\* default that data lacks, or a value of the wrong type, raises; keys of
\* data that name no field are not looked at (Config.strict is False).
dacite_from_dict(fields, data) ==
    LET missing == {f \in DOMAIN fields :
                        Text(f) \notin DOMAIN data /\ ~fields[f].has_default}
        wrong == {f \in DOMAIN fields :
                        /\ Text(f) \in DOMAIN data
                        /\ ~TypeOk(fields[f].type, data[Text(f)])}
    IN  IF missing # {} \/ wrong # {}
        THEN [ok |-> FALSE, obj |-> NoObject]
        ELSE [ok |-> TRUE,
              obj |-> [f \in DOMAIN fields |->
                          IF Text(f) \in DOMAIN data THEN data[Text(f)]
                          ELSE fields[f].default]]

\* name_map of Command.load_from_dict: every key maps to itself, but for the
\* two display spellings.
CommandNameMap(name) ==
    CASE name = Text("check-exit-code") -> Text("check_exit_code")
      [] name = Text("should-fail") -> Text("should_fail")
      [] OTHER -> name

\* name_map of Task.load_from_dict.
TaskNameMap(name) ==
    CASE name = Text("fail-fast") -> Text("fail_fast")
      [] name = Text("check-exit-code") -> Text("check_exit_code")
      [] name = Text("should-fail") -> Text("should_fail")
      [] OTHER -> name

\* {name_map[name]: value for name, value in dict.items()}, for the name map
\* of the Command.  The records of this model never hold both spellings of a
\* key, so the order of the items does not matter.
CommandRenamed(d) ==
    [x \in {CommandNameMap(y) : y \in DOMAIN d} |->
        d[CHOOSE y \in DOMAIN d : CommandNameMap(y) = x]]

\* The same for the name map of the Task.
TaskRenamed(d) ==
    [x \in {TaskNameMap(y) : y \in DOMAIN d} |->
        d[CHOOSE y \in DOMAIN d : TaskNameMap(y) = x]]

\* dict[key] = value.
DictSet(d, key, value) ==
    [x \in (DOMAIN d) \cup {key} |-> IF x = key THEN value ELSE d[x]]

\* Command.load_from_dict(dict): a str is short for {"command": dict}; a
\* missing or false "command" becomes "".  Neither a str nor a dict: the
\* call of dict.get raises.
Command_load_from_dict(def) ==
    IF def.k = "str"
    THEN dacite_from_dict(CommandFields, [x \in {Text("command")} |-> def])
    ELSE IF def.k # "dict" THEN [ok |-> FALSE, obj |-> NoObject]
    ELSE LET m == Mapping(def)
             d == IF Text("command") \in DOMAIN m /\ Truthy(m[Text("command")])
                  THEN m
                  ELSE DictSet(m, Text("command"), PyStr(<<>>))
         IN  dacite_from_dict(CommandFields, CommandRenamed(d))

\* Task.load_from_dict(dict).
Task_load_from_dict(d) == dacite_from_dict(TaskFields, TaskRenamed(d))

RECURSIVE LoadCommands(_, _)
\* [Command.load_from_dict(com) for com in ...]: the Commands of the
\* definitions from the i-th on; the first that raises ends the list.
LoadCommands(defs, i) ==
    IF i > Len(defs) THEN [ok |-> TRUE, cs |-> <<>>]
    ELSE LET c == Command_load_from_dict(defs[i])
             rest == LoadCommands(defs, i + 1)
         IN  IF c.ok /\ rest.ok
             THEN [ok |-> TRUE, cs |-> <<c.obj>> \o rest.cs]
             ELSE [ok |-> FALSE, cs |-> <<>>]

\* The items a for loop over a value visits: the items of a list, the
\* characters of a str, the keys of a dict in insertion order (each a str).
Iterate(v) ==
    CASE v.k = "str" -> [i \in 1..Len(v.s) |-> PyStr(<<v.s[i]>>)]
      [] v.k = "dict" -> [i \in 1..Len(v.s) |-> PyStr(Keys(v)[i])]
      [] OTHER -> v.s

\* Task.load_from_yaml, from the value yaml.safe_load returned: not a
\* mapping raises YAMLError; no "name" after the overrides is error(); the
\* commands are loaded, then the Task.  A "commands" that cannot be iterated
\* (None, a number) raises.
Task_load_from_yaml(loaded_obj, overrides) ==
    IF loaded_obj.k # "dict" THEN [ok |-> FALSE, obj |-> NoObject]
    ELSE LET o == DictUnion(Mapping(loaded_obj), overrides)
         IN  IF Text("name") \notin DOMAIN o THEN [ok |-> FALSE, obj |-> NoObject]
             ELSE LET defs == IF Text("commands") \in DOMAIN o
                              THEN o[Text("commands")] ELSE PyList(<<>>)
                  IN  IF defs.k \notin {"list", "str", "dict"}
                      THEN [ok |-> FALSE, obj |-> NoObject]
                      ELSE LET cs == LoadCommands(Iterate(defs), 1)
                           IN  IF ~cs.ok THEN [ok |-> FALSE, obj |-> NoObject]
                               ELSE Task_load_from_dict(
                                        DictSet(o, Text("commands"), PyCommands(cs.cs)))

RECURSIVE SplitFrom(_, _, _)
\* str.splitlines() over the line break "\n": the lines from position i on,
\* cur being the line read so far.  A line break ends a line, empty or not;
\* the text after the last line break is a line only when it is not empty.
SplitFrom(s, i, cur) ==
    IF i > Len(s) THEN (IF cur = <<>> THEN <<>> ELSE <<cur>>)
    ELSE IF s[i] = "\n" THEN <<cur>> \o SplitFrom(s, i + 1, <<>>)
    ELSE SplitFrom(s, i + 1, Append(cur, s[i]))

splitlines(s) == SplitFrom(s, 1, <<>>)

\* Command(command=com): every other field at its default.
NewCommand(com) ==
    [f \in DOMAIN CommandFields |->
        IF f = "command" THEN PyStr(com) ELSE CommandFields[f].default]

\* The keys of a dict in insertion order after dict[key] = value: a new key
\* goes last, a key already there keeps its place.
KeysSet(keys, key) ==
    IF \E i \in 1..Len(keys) : keys[i] = key THEN keys ELSE Append(keys, key)

\* params["name"] = name; params["commands"] = [Command(command=com) ...]:
\* the mapping of the caller's dict after Task.from_multiline_string wrote
\* into it.
ParamsAssigned(name, string, params) ==
    LET lines == splitlines(string)
    IN  DictSet(DictSet(params, Text("name"), name), Text("commands"),
                PyCommands([i \in 1..Len(lines) |-> NewCommand(lines[i])]))

\* Task.from_multiline_string(name, string, params).
Task_from_multiline_string(name, string, params) ==
    Task_load_from_dict(ParamsAssigned(name, string, params))

RECURSIVE ApplyKeys(_, _, _, _, _)
\* The loop of Command._apply_task_properties from the it-th key on:
\* self[key] = task_values[it] if self[key] == defaults[it] else self[key].
ApplyKeys(self, keys, defaults, task_values, it) ==
    IF it > Len(keys) THEN self
    ELSE ApplyKeys([self EXCEPT ![keys[it]] =
                        IF PyEq(self[keys[it]], defaults[it])
                        THEN task_values[it]
                        ELSE self[keys[it]]],
                   keys, defaults, task_values, it + 1)

RECURSIVE ApplyKeysFalsy(_, _, _, _, _)
ApplyKeysFalsy(self, keys, defaults, task_values, it) ==
    IF it > Len(keys) THEN self
    ELSE ApplyKeysFalsy([self EXCEPT ![keys[it]] =
                            IF ~Truthy(self[keys[it]])
                            THEN task_values[it]
                            ELSE self[keys[it]]],
                        keys, defaults, task_values, it + 1)

\* Command._apply_task_properties as it would be with the test written
\* "if not self[key]": an explicit False or 0 is taken for unset.
Command_apply_task_properties_falsy(self, keys, defaults, task_values) ==
    ApplyKeysFalsy(self, keys, defaults, task_values, 1)

\* Command._apply_task_properties(keys, defaults, task_values).
Command_apply_task_properties(self, keys, defaults, task_values) ==
    ApplyKeys(self, keys, defaults, task_values, 1)

\* The policy fields a Command inherits from its Task.
PolicyKeys == <<"timeout", "echo", "check_exit_code", "should_fail">>

\* The dispatcher's add_task: every command of the task takes the task's
\* value for each policy field it left at the field's unset marker.
AddTaskProperties(t) ==
    [t EXCEPT !["commands"] =
        PyCommands([i \in 1..Len(t["commands"].s) |->
            Command_apply_task_properties(
                t["commands"].s[i],
                PolicyKeys,
                [j \in 1..Len(PolicyKeys) |-> CommandFields[PolicyKeys[j]].default],
                [j \in 1..Len(PolicyKeys) |-> t[PolicyKeys[j]]])])]

(***************************************************************************)
(* SpecLoad: inputs.                                                       *)
(***************************************************************************)

\* The longest block of lines handed to Task.from_multiline_string.
MaxBlockLen == 3

RECURSIVE DictsOver(_, _)
\* The dicts whose keys are among ks (a sequence) and whose value for a key
\* k is one of vals[k].
DictsOver(ks, vals) ==
    IF ks = <<>> THEN {EmptyDict}
    ELSE LET rest == DictsOver(Tail(ks), vals)
         IN  rest \cup {DictSet(d, Head(ks), v) : d \in rest, v \in vals[Head(ks)]}

\* The dict of a mapping written with the names of its keys, the keys in the
\* order ks lists them.
Ls == <<"l", "s">>

\* A mapping written with the names of its keys, as the mapping of the strs.
Spelled(d) ==
    [x \in {Text(y) : y \in DOMAIN d} |-> d[CHOOSE y \in DOMAIN d : Text(y) = x]]

InOrder(ks, d) ==
    LET present == SelectSeq(ks, LAMBDA x : x \in DOMAIN d)
    IN  PyDict([i \in 1..Len(present) |-> Text(present[i])], Spelled(d))

\* The values a command definition may give each of its keys.  A str for
\* echo is a value of the wrong type; "refers" names no field of a Command.
CommandDefValues ==
    [x \in {"command", "timeout", "echo", "check-exit-code", "should_fail", "refers"} |->
        CASE x = "command" -> {PyStr(Ls)}
          [] x = "timeout" -> {PyInt(-1), PyInt(5), PyNone}
          [] x = "echo" -> {PyNone, PyBool(TRUE), PyBool(FALSE), PyStr(<<"y">>)}
          [] x = "check-exit-code" -> {PyBool(TRUE), PyBool(FALSE)}
          [] x = "should_fail" -> {PyBool(TRUE), PyBool(FALSE)}
          [] x = "refers" -> {PyStr(<<"t">>)}]

\* Definitions of one command: the str shorthand, and records in the display
\* spelling, with or without a key that names no field.
CommandDefs ==
    {PyStr(Ls)} \cup
    LET ks == <<"command", "timeout", "echo", "check-exit-code", "should_fail", "refers">>
    IN  {InOrder(ks, d) : d \in DictsOver(ks, CommandDefValues)}

TaskName == PyStr(<<"t">>)

\* The requires list of a task definition.
Requires == PyList(<<PyStr(<<"c">>), PyStr(<<"p">>)>>)

\* The keys a task definition may give besides its policy and its commands:
\* "refers" names no field of a Task.
TaskBaseValues ==
    [x \in {"name", "shell", "refers", "requires"} |->
        CASE x = "name" -> {TaskName}
          [] x = "shell" -> {PyStr(<<"h">>)}
          [] x = "refers" -> {PyStr(<<"t">>)}
          [] x = "requires" -> {Requires}]

\* The keys of a task definition, in the order the definitions of this model
\* write them.
TaskKeyOrder ==
    <<"name", "shell", "refers", "requires", "echo", "timeout", "fail-fast",
      "check-exit-code", "should-fail", "commands">>

\* A task policy that differs from the defaults of the Task in every field,
\* in the display spelling.
TaskPolicy ==
    [x \in {"echo", "timeout", "fail-fast", "check-exit-code", "should-fail"} |->
        CASE x = "echo" -> PyBool(TRUE)
          [] x = "timeout" -> PyInt(7)
          [] x = "fail-fast" -> PyBool(FALSE)
          [] x = "check-exit-code" -> PyBool(FALSE)
          [] x = "should-fail" -> PyBool(TRUE)]

\* The params record of Task.from_multiline_string: with or without a
\* shell, a requires list and a policy; a name or commands it holds is
\* overwritten.
ParamsRecords ==
    LET bases == DictsOver(<<"shell", "refers", "requires">>, TaskBaseValues)
        stale == [name |-> PyStr(<<"x">>), shell |-> PyStr(<<"h">>),
                  commands |-> PyStr(<<"z">>)]
    IN  {InOrder(TaskKeyOrder, p) :
            p \in bases \cup {DictUnion(b, TaskPolicy) : b \in bases} \cup {stale}}

\* A "commands" that is not a list of definitions: a mapping (its keys are
\* read as commands, in their order), a str, None.
OtherCommands ==
    {PyDict(<<>>, EmptyDict),
     PyDict(<<Ls>>, [x \in {Ls} |-> PyNone]),
     PyDict(<<Text("echo")>>, [x \in {Text("echo")} |-> PyNone]),
     PyDict(<<<<"a">>, Ls>>, [x \in {<<"a">>, Ls} |-> PyNone]),
     PyDict(<<Ls, <<"a">>>>, [x \in {<<"a">>, Ls} |-> PyNone]),
     PyStr(Ls),
     PyNone}

\* What yaml.safe_load may return: a mapping with one command definition or
\* with none, or with commands that are no list, or a value that is no
\* mapping.
YamlObjects ==
    LET bases == DictsOver(<<"name", "shell", "refers">>, TaskBaseValues)
        tasks == bases \cup {DictUnion(b, TaskPolicy) : b \in bases}
    IN  {PyStr(Ls)}
            \cup {InOrder(TaskKeyOrder, t) : t \in tasks}
            \cup {InOrder(TaskKeyOrder, DictSet(t, "commands", PyList(<<c>>))) :
                        t \in tasks, c \in CommandDefs}
            \cup {InOrder(TaskKeyOrder, DictSet(t, "commands", c)) :
                        t \in bases, c \in OtherCommands}

\* The overrides handed to Task.load_from_yaml: none, a name, and a name
\* with a requires list and a key that names no field.
Overrides ==
    {EmptyDict,
     Spelled([name |-> TaskName]),
     Spelled([name |-> TaskName, refers |-> PyStr(<<"t">>), requires |-> Requires])}

\* The record the main script hands over for the task of the renode-run
\* input: {"echo": True, "refers": "target", "requires": ["chroot", "python"]}.
ScriptConfig ==
    InOrder(<<"echo", "refers", "requires">>,
           [echo |-> PyBool(TRUE),
            refers |-> PyStr(<<"t", "a", "r", "g", "e", "t">>),
            requires |-> PyList(<<PyStr(<<"c", "h", "r", "o", "o", "t">>),
                                  PyStr(<<"p", "y", "t", "h", "o", "n">>)>>)])

RECURSIVE BlocksUpTo(_)
\* The strings over "a", "b" and the line break, up to a length.
BlocksUpTo(n) ==
    IF n = 0 THEN {<<>>}
    ELSE LET prev == BlocksUpTo(n - 1)
         IN  prev \cup {Append(b, c) : b \in prev, c \in {"a", "b", "\n"}}

Blocks == BlocksUpTo(MaxBlockLen)

InitL ==
    /\ lpc = "start"
    /\ \/ source = "yaml" /\ obj \in YamlObjects /\ block = <<>>
                           /\ given_overrides \in Overrides
       \/ source = "lines" /\ obj \in ParamsRecords /\ block \in Blocks
                            /\ given_overrides = EmptyDict
       \/ source = "script" /\ obj = ScriptConfig /\ block \in Blocks
                             /\ given_overrides = EmptyDict
    /\ task = NoObject
    /\ loaded = NoObject
    \* no variable resolution here
    /\ vpc = "idle"
    /\ commands = <<>>
    /\ original = <<>>
    /\ default_vars = EmptyDict
    /\ task_vars = EmptyDict
    /\ override_vars = EmptyDict
    /\ sent = <<>>
    \* no dispatcher evaluation here
    /\ dpc = "idle"
    /\ requires = <<>>
    /\ before = <<>>
    /\ no_fail_fast = {}
    /\ fail_fast = <<>>
    /\ disabled = <<>>
    /\ switched_off = {}
    /\ order = <<>>
    /\ status = <<>>
    /\ cancelled = {}
    /\ results = <<>>

\* A call of Task.load_from_yaml(yaml_string, overrides); obj stays what
\* yaml.safe_load returned (the function changes a dict of its own).
LoadFromYaml ==
    /\ lpc = "start"
    /\ source = "yaml"
    /\ LET r == Task_load_from_yaml(obj, given_overrides)
       IN  /\ lpc' = IF r.ok THEN "loaded" ELSE "error"
           /\ task' = r.obj
           /\ loaded' = r.obj
    /\ UNCHANGED <<source, obj, block, given_overrides>>
    /\ UNCHANGED <<varsV, varsD>>

\* A call of Task.from_multiline_string(name, string, params): the caller's
\* params dict holds the name and the commands afterwards, whether the Task
\* could be built or not.
FromMultilineString ==
    /\ lpc = "start"
    /\ source = "lines"
    /\ LET r == Task_from_multiline_string(TaskName, block, Mapping(obj))
       IN  /\ lpc' = IF r.ok THEN "loaded" ELSE "error"
           /\ task' = r.obj
           /\ loaded' = r.obj
    /\ obj' = PyDict(KeysSet(KeysSet(Keys(obj), Text("name")), Text("commands")),
                     ParamsAssigned(TaskName, block, Mapping(obj)))
    /\ UNCHANGED <<source, block, given_overrides>>
    /\ UNCHANGED <<varsV, varsD>>

\* The main script's own construction of the task "action_test": it calls
\* Task.form_multiline_string(..., config=...), an attribute the Task class
\* does not have, so the call raises AttributeError before any constructor
\* runs; the load_from_yaml call that follows it is never reached.
MainActionTest ==
    /\ lpc = "start"
    /\ source = "script"
    /\ lpc' = "error"
    /\ UNCHANGED <<source, obj, block, given_overrides, task, loaded>>
    /\ UNCHANGED <<varsV, varsD>>

\* The dispatcher registers the task: its commands inherit its policy.
AddTask ==
    /\ lpc = "loaded"
    /\ task' = AddTaskProperties(task)
    /\ lpc' = "added"
    /\ UNCHANGED <<source, obj, block, given_overrides, loaded>>
    /\ UNCHANGED <<varsV, varsD>>

NextL == LoadFromYaml \/ FromMultilineString \/ MainActionTest \/ AddTask

(***************************************************************************)
(* The dispatcher: the dependency graph, the execution order and the state *)
(* machine of each task.                                                   *)
(***************************************************************************)

\* The most edges (requires and before together) of a generated graph.
MaxEdges == 3

\* The number of commands of each task.
CommandsPerTask == 2

\* The registered tasks, in registration order.
Registration == <<"t1", "t2", "t3">>

Tasks == {Registration[i] : i \in 1..Len(Registration)}

\* The shell each task is bound to.
ShellOf == [t \in Tasks |-> IF t = "t3" THEN "target" ELSE "host"]

\* The tasks that must be terminal before t starts: those t requires, and
\* those that name t in their before list.
Deps(req, bef, t) == req[t] \cup {u \in Tasks : t \in bef[u]}

RECURSIVE Closure(_, _, _)
Closure(req, bef, S) ==
    LET more == S \cup UNION {Deps(req, bef, x) : x \in S}
    IN  IF more = S THEN S ELSE Closure(req, bef, more)

\* The tasks t depends on, directly or transitively.
Ancestors(req, bef, t) == Closure(req, bef, Deps(req, bef, t))

\* The tasks that depend on t, directly or transitively.
Descendants(req, bef, t) == {u \in Tasks : t \in Ancestors(req, bef, u)}

\* The combined relation has a cycle.
Cyclic(req, bef) == \E t \in Tasks : t \in Ancestors(req, bef, t)

Range(f) == {f[i] : i \in 1..Len(f)}

RECURSIVE Linearize(_, _, _)
Linearize(req, bef, placed) ==
    LET cand == {i \in 1..Len(Registration) :
                    /\ Registration[i] \notin Range(placed)
                    /\ Deps(req, bef, Registration[i]) \subseteq Range(placed)}
    IN  IF cand = {} THEN placed
        ELSE Linearize(req, bef,
                 Append(placed, Registration[CHOOSE i \in cand : \A j \in cand : i <= j]))

\* The order as it would be computed from the requires edges alone.
TopologicalOrder_requires_only(req, bef) ==
    Linearize(req, [t \in Tasks |-> {}], <<>>)

\* The execution order: a topological order of the graph, the earliest
\* registered task first among those whose dependencies are all placed.
TopologicalOrder(req, bef) == Linearize(req, bef, <<>>)

Terminal == {"succeeded", "failed", "skipped"}

\* A terminal task that satisfies the tasks depending on it: it succeeded,
\* or it was skipped as disabled.
Satisfied(st, canc, d) ==
    st[d] = "succeeded" \/ (st[d] = "skipped" /\ d \notin canc)

\* The state of a task after a command ended with the last outcome of rs.
StatusAfterCommand(ff, rs) ==
    IF ff /\ rs[Len(rs)] = "fail" THEN "failed"
    ELSE IF Len(rs) < CommandsPerTask THEN "running"
    ELSE IF \E i \in 1..Len(rs) : rs[i] = "fail" THEN "failed"
    ELSE "succeeded"

Edges == {<<kind, x, y>> : kind \in {"requires", "before"}, x \in Tasks, y \in Tasks}

EdgeSets ==
    {E \in SUBSET {e \in Edges : e[2] # e[3]} : Cardinality(E) <= MaxEdges}

\* The dispatcher after construction: its tasks registered, each with its
\* edges, any of them with fail-fast set to false, none disabled.
InitD ==
    /\ dpc = "setup"
    /\ \E E \in EdgeSets :
          /\ requires = [t \in Tasks |-> {y \in Tasks : <<"requires", t, y>> \in E}]
          /\ before = [t \in Tasks |-> {y \in Tasks : <<"before", t, y>> \in E}]
    /\ no_fail_fast \in SUBSET Tasks
    /\ fail_fast = [t \in Tasks |->
                       IF t \in no_fail_fast THEN FALSE ELSE Task_fail_fast_default]
    /\ disabled = [t \in Tasks |-> Task_disabled_default]
    /\ switched_off = {}
    /\ order = <<>>
    /\ status = [t \in Tasks |-> "pending"]
    /\ cancelled = {}
    /\ results = [t \in Tasks |-> <<>>]
    \* no variable resolution here
    /\ vpc = "idle"
    /\ commands = <<>>
    /\ original = <<>>
    /\ default_vars = EmptyDict
    /\ task_vars = EmptyDict
    /\ override_vars = EmptyDict
    /\ sent = <<>>
    \* nothing is constructed here
    /\ lpc = "idle"
    /\ source = "none"
    /\ obj = NoObject
    /\ given_overrides = EmptyDict
    /\ block = <<>>
    /\ task = NoObject
    /\ loaded = NoObject

\* enable_task(name, value): Task.enable(value) on the named task, before
\* the evaluation.
EnableTask(t, value) ==
    /\ dpc = "setup"
    /\ disabled' = [disabled EXCEPT ![t] = Task_enable(value)]
    /\ switched_off' = IF value THEN switched_off \ {t} ELSE switched_off \cup {t}
    /\ UNCHANGED <<dpc, requires, before, no_fail_fast, fail_fast, order,
                   status, cancelled, results>>
    /\ UNCHANGED <<varsV, varsL>>

\* evaluate(): a cycle is a configuration error; else the order is computed
\* and the tasks run.
Evaluate ==
    /\ dpc = "setup"
    /\ IF Cyclic(requires, before)
       THEN dpc' = "error" /\ order' = order
       ELSE dpc' = "running" /\ order' = TopologicalOrder(requires, before)
    /\ UNCHANGED <<requires, before, no_fail_fast, fail_fast, disabled,
                   switched_off, status, cancelled, results>>
    /\ UNCHANGED <<varsV, varsL>>

\* A task leaves pending once every task it depends on is terminal.
Settled(t) ==
    /\ dpc = "running"
    /\ status[t] = "pending"
    /\ \A d \in Deps(requires, before, t) : status[d] \in Terminal

\* pending -> ready: the task is enabled and all it depends on satisfies it.
MakeReady(t) ==
    /\ Settled(t)
    /\ ~disabled[t]
    /\ \A d \in Deps(requires, before, t) : Satisfied(status, cancelled, d)
    /\ status' = [status EXCEPT ![t] = "ready"]
    /\ UNCHANGED <<dpc, requires, before, no_fail_fast, fail_fast, disabled,
                   switched_off, order, cancelled, results>>
    /\ UNCHANGED <<varsV, varsL>>

\* pending -> skipped: the task is disabled, or a task it depends on failed
\* or was cancelled, which cancels it too.
Skip(t) ==
    /\ Settled(t)
    /\ LET blocked == \E d \in Deps(requires, before, t) :
                          ~Satisfied(status, cancelled, d)
       IN  /\ disabled[t] \/ blocked
           /\ cancelled' = IF blocked THEN cancelled \cup {t} ELSE cancelled
    /\ status' = [status EXCEPT ![t] = "skipped"]
    /\ UNCHANGED <<dpc, requires, before, no_fail_fast, fail_fast, disabled,
                   switched_off, order, results>>
    /\ UNCHANGED <<varsV, varsL>>

Position(t) == CHOOSE i \in 1..Len(order) : order[i] = t

\* ready -> running: the shell of the task is free and every task of that
\* shell that is earlier in the order is terminal.
Start(t) ==
    /\ dpc = "running"
    /\ status[t] = "ready"
    /\ \A u \in Tasks \ {t} :
          ShellOf[u] = ShellOf[t] =>
              /\ status[u] # "running"
              /\ Position(u) < Position(t) => status[u] \in Terminal
    /\ status' = [status EXCEPT ![t] = "running"]
    /\ UNCHANGED <<dpc, requires, before, no_fail_fast, fail_fast, disabled,
                   switched_off, order, cancelled, results>>
    /\ UNCHANGED <<varsV, varsL>>

\* The next command of a running task is executed and fails or not.
RunCommand(t, outcome) ==
    /\ dpc = "running"
    /\ status[t] = "running"
    /\ results' = [results EXCEPT ![t] = Append(@, outcome)]
    /\ status' = [status EXCEPT ![t] =
                     StatusAfterCommand(fail_fast[t], Append(results[t], outcome))]
    /\ UNCHANGED <<dpc, requires, before, no_fail_fast, fail_fast, disabled,
                   switched_off, order, cancelled>>
    /\ UNCHANGED <<varsV, varsL>>

\* Every task is terminal: the evaluation reports success only if every
\* task that is not disabled succeeded.
Finish ==
    /\ dpc = "running"
    /\ \A t \in Tasks : status[t] \in Terminal
    /\ dpc' = IF \A t \in Tasks : disabled[t] \/ status[t] = "succeeded"
              THEN "done_ok" ELSE "done_failed"
    /\ UNCHANGED <<requires, before, no_fail_fast, fail_fast, disabled,
                   switched_off, order, status, cancelled, results>>
    /\ UNCHANGED <<varsV, varsL>>

NextD ==
    \/ \E t \in Tasks, value \in BOOLEAN : EnableTask(t, value)
    \/ Evaluate
    \/ \E t \in Tasks : MakeReady(t)
    \/ \E t \in Tasks : Skip(t)
    \/ \E t \in Tasks : Start(t)
    \/ \E t \in Tasks, outcome \in {"ok", "fail"} : RunCommand(t, outcome)
    \/ Finish

SpecDispatch == InitD /\ [][NextD]_vars

SpecLoad == InitL /\ [][NextL]_vars

SpecVars == InitV /\ [][NextV]_vars

(***************************************************************************)
(* Properties of variable resolution (SpecVars).                           *)
(***************************************************************************)

\* The scope of the task in the current state.
Scope == MergedScope(default_vars, task_vars, override_vars)

\* The names of the placeholders of the i-th command as loaded, as the
\* expression captures them.
PlaceholderNames(i) ==
    {finditer(original[i], 1)[j].var_name : j \in 1..Len(finditer(original[i], 1))}

\* Some command of the task holds a placeholder whose name is no key of the
\* scope.
HasUndefined ==
    \E i \in 1..Len(original) : \E n \in PlaceholderNames(i) : n \notin DOMAIN Scope

\* The text is one placeholder and nothing else.
IsSinglePlaceholder(t) ==
    Len(finditer(t, 1)) = 1 /\ finditer(t, 1)[1].pattern = t

\* C4: once Task.apply_vars has run, a task with a placeholder whose name is
\* absent from the merged scope has ended in the fatal error, and no command
\* has been sent to the shell.
C4_UndefinedAborts ==
    (vpc \in {"resolved", "aborted"} /\ HasUndefined)
        => (vpc = "aborted" /\ sent = <<>>)

\* C4 witness: the first of two commands was resolved, the second one held
\* the undefined name and ended the run, with nothing sent.
C4_Witness ==
    /\ vpc = "aborted"
    /\ Len(original) = 2
    /\ commands[1] # original[1]
    /\ commands[2] = original[2]
    /\ HasUndefined
    /\ sent = <<>>

\* The value the spec gives a name: the override, else the task's, else the
\* global default.
ByPrecedence(n) ==
    IF n \in DOMAIN override_vars THEN override_vars[n]
    ELSE IF n \in DOMAIN task_vars THEN task_vars[n]
    ELSE default_vars[n]

\* C5: a command that is one placeholder resolves to the per-run override of
\* its name if there is one, else to the task's value, else to the global
\* default.
C5_ScopePrecedence ==
    vpc = "resolved" =>
        /\ \A n \in DOMAIN Scope : Scope[n] = ByPrecedence(n)
        /\ \A i \in 1..Len(original) :
              IsSinglePlaceholder(original[i]) =>
                  commands[i] = ByPrecedence(finditer(original[i], 1)[1].var_name)

\* C5 witness: A is defined in all three scopes and the command ${{A}} has
\* resolved to the override value.
C5_Witness ==
    /\ vpc = "resolved"
    /\ original = <<<<"$", "{", "{", "A", "}", "}">>>>
    /\ NameA \in DOMAIN default_vars
    /\ NameA \in DOMAIN task_vars
    /\ NameA \in DOMAIN override_vars
    /\ commands = <<override_vars[NameA]>>

RECURSIVE Strip(_)
\* str.strip() of a name: the spaces at both ends removed.
Strip(n) ==
    IF n = <<>> THEN n
    ELSE IF Head(n) = " " THEN Strip(Tail(n))
    ELSE IF n[Len(n)] = " " THEN Strip(SubSeq(n, 1, Len(n) - 1))
    ELSE n

\* C6: a command that is one placeholder, written with or without spaces
\* around a name X of the merged scope, resolves to the value of X and does
\* not end in the variable-not-found error.
C6_SpacesTrimmed ==
    (/\ vpc \in {"resolved", "aborted"}
     /\ Len(original) = 1
     /\ IsSinglePlaceholder(original[1])
     /\ Strip(finditer(original[1], 1)[1].var_name) \in DOMAIN Scope)
        => (/\ vpc = "resolved"
            /\ commands[1] = Scope[Strip(finditer(original[1], 1)[1].var_name)])

RECURSIVE SinglePass(_, _, _)
\* The text s from position i on with each of its placeholders replaced by
\* the value of its name and every other character kept.
SinglePass(s, i, vs) ==
    IF i > Len(s) THEN <<>>
    ELSE LET n == MatchAt(s, i)
         IN  IF n > 0
             THEN vs[SubSeq(s, i + 3, i + n - 3)] \o SinglePass(s, i + n, vs)
             ELSE <<s[i]>> \o SinglePass(s, i + 1, vs)

\* C7: a resolved command is its original text with each original
\* placeholder replaced by its value; the text of a substituted value is not
\* replaced again.
C7_SinglePass ==
    vpc = "resolved" =>
        \A i \in 1..Len(original) : commands[i] = SinglePass(original[i], 1, Scope)

(***************************************************************************)
(* Properties of construction and policy inheritance (SpecLoad).           *)
(***************************************************************************)

\* The non-empty lines of a block, in order.
NonEmptyLines(b) == SelectSeq(splitlines(b), LAMBDA l : l # <<>>)

\* C8: the Task built from a block of lines has one Command per non-empty
\* line, in line order, each with every policy field unset; an empty line
\* gives no Command.
C8_OneCommandPerNonEmptyLine ==
    (lpc \in {"loaded", "added"} /\ source = "lines") =>
        loaded["commands"].s =
            [i \in 1..Len(NonEmptyLines(block)) |-> NewCommand(NonEmptyLines(block)[i])]

\* The keys of a command definition that name no field of the Command.
UnknownCommandKeys(d) ==
    {x \in DOMAIN d : CommandNameMap(x) \notin {Text(f) : f \in DOMAIN CommandFields}}

\* The keys of a task definition that name no field of the Task.
UnknownTaskKeys(d) ==
    {x \in DOMAIN d : TaskNameMap(x) \notin {Text(f) : f \in DOMAIN TaskFields}}

\* The command definitions of the record the task is loaded from.
CommandDefinitions ==
    IF source = "yaml" /\ obj.k = "dict" /\ Text("commands") \in DOMAIN Mapping(obj)
    THEN Iterate(Mapping(obj)[Text("commands")])
    ELSE <<>>

\* C9: a Task is returned only for records without unknown keys: none in the
\* task's record or the overrides, none in the record of any of its commands.
C9_UnknownKeyIsError ==
    lpc \in {"loaded", "added"} =>
        /\ UnknownTaskKeys(DictUnion(Mapping(obj), given_overrides)) = {}
        /\ \A i \in 1..Len(CommandDefinitions) :
              CommandDefinitions[i].k = "dict"
                  => UnknownCommandKeys(Mapping(CommandDefinitions[i])) = {}

\* The value the definition of the i-th command gives a policy field; the
\* field's unset marker when it gives none.
OwnValue(i, key) ==
    IF /\ i <= Len(CommandDefinitions)
       /\ CommandDefinitions[i].k = "dict"
       /\ Text(key) \in DOMAIN CommandRenamed(Mapping(CommandDefinitions[i]))
    THEN CommandRenamed(Mapping(CommandDefinitions[i]))[Text(key)]
    ELSE CommandFields[key].default

SameValue(a, b) == a.k = b.k /\ a = b

\* C10: after the task's policy is applied, each policy field of a command
\* has the value its definition set (False and None for a timeout included),
\* and the task's value when the definition left the field unset.
C10_PolicyInheritance ==
    lpc = "added" =>
        \A i \in 1..Len(task["commands"].s) : \A j \in 1..Len(PolicyKeys) :
            LET key == PolicyKeys[j]
                own == OwnValue(i, key)
                eff == task["commands"].s[i][key]
            IN  IF SameValue(own, CommandFields[key].default)
                THEN SameValue(eff, loaded[key])
                ELSE SameValue(eff, own)

\* C10 witness: a command that sets check_exit_code to False under a task
\* whose check_exit_code is True keeps False, and its unset echo and timeout
\* take the task's values.
C10_Witness ==
    /\ lpc = "added"
    /\ Len(task["commands"].s) = 1
    /\ OwnValue(1, "check_exit_code") = PyBool(FALSE)
    /\ loaded["check_exit_code"] = PyBool(TRUE)
    /\ task["commands"].s[1]["check_exit_code"] = PyBool(FALSE)
    /\ OwnValue(1, "echo") = PyNone
    /\ task["commands"].s[1]["echo"] = loaded["echo"]
    /\ OwnValue(1, "timeout") = PyInt(-1)
    /\ task["commands"].s[1]["timeout"] = loaded["timeout"]

(***************************************************************************)
(* Properties of the dispatcher (SpecDispatch).                            *)
(***************************************************************************)

\* The evaluation went past the validation of the graph.
Evaluated == dpc \in {"running", "done_ok", "done_failed"}

\* C1: a graph is refused only if it has a cycle, and the execution order
\* computed for an acyclic graph holds every task once, each after all the
\* tasks of its requires list and before all the tasks of its before list.
C1_OrderRespectsEdges ==
    /\ dpc = "error" => Cyclic(requires, before)
    /\ Evaluated =>
          /\ Len(order) = Len(Registration)
          /\ Range(order) = Tasks
          /\ \A t \in Tasks :
                /\ \A r \in requires[t] : Position(r) < Position(t)
                /\ \A b \in before[t] : Position(t) < Position(b)

\* C1 witness: a task with a requires edge and a before edge, in an order
\* that is not the registration order.
C1_Witness ==
    /\ Evaluated
    /\ order # Registration
    /\ \E t \in Tasks : requires[t] # {} /\ before[t] # {}

\* C2: when the first command of a task that left fail_fast at its default
\* fails, no other command of the task is executed, and no task depending on
\* it, directly or transitively, reaches ready (or any state after ready).
C2_FailFastStops ==
    Evaluated =>
        \A t \in Tasks :
            (t \notin no_fail_fast /\ results[t] # <<>> /\ results[t][1] = "fail")
                => /\ Len(results[t]) = 1
                   /\ \A u \in Descendants(requires, before, t) :
                         status[u] \in {"pending", "skipped"}

\* C2 witness: the first command of t1 failed, t1 is failed after that one
\* command, and a task that depends on t1 only through another task ended
\* skipped with the evaluation over.
C2_Witness ==
    /\ dpc = "done_failed"
    /\ \E t \in Tasks, u \in Tasks :
          /\ t \notin no_fail_fast
          /\ results[t] = <<"fail">>
          /\ status[t] = "failed"
          /\ u \in Descendants(requires, before, t)
          /\ t \notin Deps(requires, before, u)
          /\ status[u] = "skipped"
          /\ results[u] = <<>>

\* C3: a task switched off by enable(False) before the evaluation never
\* leaves pending but to skipped, which it can do once all it depends on is
\* terminal, and executes no command; and a task that
\* requires it is not held back by it: once all it depends on is terminal,
\* with the switched-off tasks skipped and the others succeeded, and nothing
\* upstream failed, it can become ready.
C3_DisabledSkipped ==
    Evaluated =>
        \A t \in switched_off :
            /\ status[t] \in {"pending", "skipped"}
            /\ results[t] = <<>>
            /\ (status[t] = "pending" /\ dpc = "running"
                    /\ \A d \in Deps(requires, before, t) : status[d] \in Terminal)
                  => ENABLED Skip(t)
            /\ \A u \in Tasks :
                  (/\ t \in requires[u]
                   /\ status[t] = "skipped"
                   /\ status[u] = "pending"
                   /\ u \notin switched_off
                   /\ \A d \in Deps(requires, before, u) :
                         \/ status[d] = "succeeded"
                         \/ d \in switched_off /\ status[d] = "skipped"
                   /\ \A a \in Ancestors(requires, before, u) : status[a] # "failed")
                      => ENABLED MakeReady(u)

\* C3 witness: the evaluation is over, a switched-off task ended skipped
\* without a command executed, and a task that requires it succeeded.
C3_Witness ==
    /\ dpc \in {"done_ok", "done_failed"}
    /\ \E t \in switched_off, u \in Tasks :
          /\ status[t] = "skipped"
          /\ results[t] = <<>>
          /\ t \in requires[u]
          /\ status[u] = "succeeded"
          /\ Len(results[u]) = CommandsPerTask

====
